---- MODULE Spec2Model ----
(***************************************************************************)
(* Model of multi_processing.py: main() runs, one after the other, a       *)
(* single child Process, a Pool(4) fed by apply_async, a second Pool       *)
(* iterated with imap_unordered, two nslookup calls and a Queue shared by  *)
(* a writer and a reader process.  The pool and the queue are modelled by  *)
(* the steps the multiprocessing objects take on behalf of the calls the   *)
(* script makes: workers pulling tasks, the result handler, the shutdown   *)
(* sentinels, the queue's feeder thread and pipe.                          *)
(***************************************************************************)
EXTENDS Integers, Sequences, FiniteSets, TLC

\* ---------------------------------------------------------------- bounds
\* how many of the 8 entries of `sites` are iterated
NumSites == 3
\* how many workers the second pool is modelled with (the script asks for 5)
ImapWorkers == 2
\* page sizes a successful requests.get may report: 1..MaxLen
MaxLen == 1
\* tasks the free-running pool client may submit (PoolSpec)
MaxClientTasks == 3
\* workers of the free-running pool client's pool (PoolSpec)
ClientWorkers == 2

\* ------------------------------------------------------- program constants
\* pool = Pool(4)
PoolWorkers == 4
\* for i in range(5)
PoolTasks == 5

sites == << "http://www.cisco.com", "http://www.cnn.com",
            "http://www.facebook.com", "http://www.jpython.org",
            "http://www.pypy.org", "http://www.python.org",
            "http://www.twitter.com", "https://www.yahoo.com/" >>

\* the messages write() puts, in order
Msgs == << "A", "B", "C" >>

VARIABLES
    pc,         \* main's position in main()
    i,          \* main's loop variable of `for i in range(5)`
    raised,     \* error the caller's latest pool call reported ("" = none)
    child,      \* the Process of run_process: "new", "started", "done"
    nworkers,   \* number of worker processes of the current `pool`
    poolState,  \* pool._state: "NONE" before a pool exists, "RUN", "CLOSE"
    backlog,    \* tasks (and stop sentinels) not yet taken by a worker
    worker,     \* per worker: [st: "idle"|"busy"|"exited", task]
    outqueue,   \* results posted by workers, not yet handled
    cache,      \* task ids whose result has not been set yet
    stopSent,   \* the shutdown sentinels have been put on the backlog
    handles,    \* results set on the apply_async handles, in setting order
    items,      \* the imap_unordered iterator's deque of unread results
    yielded,    \* values the `for result in ...` loop received (printed)
    started,    \* history: task ids in the order workers started them
    completed,  \* history: task ids in the order workers posted their result
    joined,     \* pool.join() has returned
    qbuf,       \* Queue: the writer's local buffer (before the feeder thread)
    pipe,       \* Queue: items written to the pipe, not yet read
    wpc,        \* writer process: "new", "put", "sleep", "exiting", "exited"
    widx,       \* writer: index into Msgs of the current loop iteration
    rpc,        \* reader process: "new", "get", "terminated"
    got,        \* history: values q.get returned to the reader, in order
    puts        \* history: values passed to q.put, in order

poolVars == << nworkers, poolState, backlog, worker, outqueue, cache, stopSent,
               handles, items, started, completed >>
queueVars == << qbuf, pipe, wpc, widx, rpc, got, puts >>
vars == << pc, i, raised, child, joined, yielded, poolVars, queueVars >>

\* ------------------------------------------------------------- helpers
Range(s) == { s[k] : k \in 1..Len(s) }

IsPrefix(s, t) == Len(s) <= Len(t) /\ SubSeq(t, 1, Len(s)) = s

NoDup(s) == \A a, b \in 1..Len(s) : s[a] = s[b] => a = b

Task(fn, arg) == [kind |-> "task", fn |-> fn, arg |-> arg]

\* the None the pool sends to each worker to make it leave its loop
StopTask == [kind |-> "stop", fn |-> "", arg |-> 0]

\* placeholder for the task of a worker that has none
NoTask == [kind |-> "none", fn |-> "", arg |-> 0]

Idle == [st |-> "idle", task |-> NoTask]

Busy(t) == [st |-> "busy", task |-> t]

ExitedW == [st |-> "exited", task |-> NoTask]

Workers == 1..nworkers

\* what requests.get(url) can do: raise, or return content of some length
Responses == { [ok |-> FALSE, len |-> 0] } \cup
             { [ok |-> TRUE, len |-> n] : n \in 1..MaxLen }

\* site_size: returns (url, len(response.content)); requests.get may raise
site_size(url, resp) ==
    IF resp.ok THEN [ok |-> TRUE, val |-> << url, resp.len >>]
               ELSE [ok |-> FALSE, val |-> << >>]

\* long_time_task: prints, sleeps, prints; returns None
long_time_task(name) == [ok |-> TRUE, val |-> << >>]

\* the worker's wrapper: (True, func(*args)) or (False, exception)
RunTask(t, resp) ==
    IF t.fn = "site_size" THEN site_size(sites[t.arg + 1], resp)
                          ELSE long_time_task(t.arg)

Result(t, r) == [task |-> t.arg, fn |-> t.fn, ok |-> r.ok, val |-> r.val]

\* ------------------------------------------------------------------ Init
Init ==
    /\ pc = "proc_start"
    /\ i = 0
    /\ raised = ""
    /\ child = "new"
    /\ nworkers = 0
    /\ poolState = "NONE"
    /\ backlog = << >>
    /\ worker = << >>
    /\ outqueue = << >>
    /\ cache = {}
    /\ stopSent = FALSE
    /\ handles = << >>
    /\ items = << >>
    /\ yielded = << >>
    /\ started = << >>
    /\ completed = << >>
    /\ joined = FALSE
    /\ qbuf = << >>
    /\ pipe = << >>
    /\ wpc = "new"
    /\ widx = 1
    /\ rpc = "new"
    /\ got = << >>
    /\ puts = << >>

\* ------------------------------------------------ the single child process
\* p = Process(target=run_process, args=('test',)); p.start()
ProcStart ==
    /\ pc = "proc_start"
    /\ child' = "started"
    /\ pc' = "proc_join"
    /\ UNCHANGED << i, raised, joined, yielded, poolVars, queueVars >>

\* run_process in the child: prints and returns
run_process ==
    /\ child = "started"
    /\ child' = "done"
    /\ UNCHANGED << pc, i, raised, joined, yielded, poolVars, queueVars >>

\* variant: p.join() that returns without waiting for the child
ProcJoin_NoWait ==
    /\ pc = "proc_join"
    /\ pc' = "pool_new"
    /\ UNCHANGED << i, raised, child, joined, yielded, poolVars, queueVars >>

\* p.join(): returns once the child has exited
ProcJoin ==
    /\ pc = "proc_join"
    /\ child = "done"
    /\ pc' = "pool_new"
    /\ UNCHANGED << i, raised, child, joined, yielded, poolVars, queueVars >>

\* --------------------------------------------------------- pool operations
\* Pool(n): n idle workers, empty backlog, state RUN
NewPool(n) ==
    /\ nworkers' = n
    /\ poolState' = "RUN"
    /\ backlog' = << >>
    /\ worker' = [w \in 1..n |-> Idle]
    /\ outqueue' = << >>
    /\ cache' = {}
    /\ stopSent' = FALSE
    /\ handles' = << >>
    /\ items' = << >>
    /\ started' = << >>
    /\ completed' = << >>

\* the enqueueing half of apply_async / imap_unordered
Enqueue(ts) ==
    /\ backlog' = backlog \o ts
    /\ cache' = cache \cup { ts[k].arg : k \in 1..Len(ts) }

\* variant: close() that also discards the tasks no worker has taken yet
ClosePool_DropBacklog ==
    /\ poolState' = "CLOSE"
    /\ backlog' = << >>
    /\ UNCHANGED << nworkers, worker, outqueue, cache, stopSent, handles,
                    items, started, completed >>

\* pool.close(): only marks the pool; tasks backlogged or running are kept
ClosePool ==
    /\ poolState' = "CLOSE"
    /\ UNCHANGED << nworkers, backlog, worker, outqueue, cache, stopSent,
                    handles, items, started, completed >>

\* variant: a worker takes a task although it is still running one
WorkerTake_NoIdleCheck(w) ==
    /\ w \in Workers
    /\ worker[w].st # "exited"
    /\ backlog # << >>
    /\ backlog' = Tail(backlog)
    /\ IF Head(backlog).kind = "stop"
          THEN /\ worker' = [worker EXCEPT ![w] = ExitedW]
               /\ UNCHANGED started
          ELSE /\ worker' = [worker EXCEPT ![w] = Busy(Head(backlog))]
               /\ started' = Append(started, Head(backlog).arg)
    /\ UNCHANGED << pc, i, raised, child, joined, yielded, nworkers, poolState,
                    outqueue, cache, stopSent, handles, items, completed,
                    queueVars >>

\* variant: a worker reads the head task without removing it
WorkerTake_NoRemove(w) ==
    /\ w \in Workers
    /\ worker[w].st = "idle"
    /\ backlog # << >>
    /\ IF Head(backlog).kind = "stop"
          THEN /\ worker' = [worker EXCEPT ![w] = ExitedW]
               /\ backlog' = Tail(backlog)
               /\ UNCHANGED started
          ELSE /\ worker' = [worker EXCEPT ![w] = Busy(Head(backlog))]
               /\ backlog' = backlog
               /\ started' = Append(started, Head(backlog).arg)
    /\ UNCHANGED << pc, i, raised, child, joined, yielded, nworkers, poolState,
                    outqueue, cache, stopSent, handles, items, completed,
                    queueVars >>

\* variant: a worker takes the newest entry of the backlog
WorkerTake_Newest(w) ==
    /\ w \in Workers
    /\ worker[w].st = "idle"
    /\ backlog # << >>
    /\ backlog' = SubSeq(backlog, 1, Len(backlog) - 1)
    /\ IF backlog[Len(backlog)].kind = "stop"
          THEN /\ worker' = [worker EXCEPT ![w] = ExitedW]
               /\ UNCHANGED started
          ELSE /\ worker' = [worker EXCEPT ![w] = Busy(backlog[Len(backlog)])]
               /\ started' = Append(started, backlog[Len(backlog)].arg)
    /\ UNCHANGED << pc, i, raised, child, joined, yielded, nworkers, poolState,
                    outqueue, cache, stopSent, handles, items, completed,
                    queueVars >>

\* a worker takes the head of the backlog: a task to run, or the sentinel
WorkerTake(w) ==
    /\ w \in Workers
    /\ worker[w].st = "idle"
    /\ backlog # << >>
    /\ backlog' = Tail(backlog)
    /\ IF Head(backlog).kind = "stop"
          THEN /\ worker' = [worker EXCEPT ![w] = ExitedW]
               /\ UNCHANGED started
          ELSE /\ worker' = [worker EXCEPT ![w] = Busy(Head(backlog))]
               /\ started' = Append(started, Head(backlog).arg)
    /\ UNCHANGED << pc, i, raised, child, joined, yielded, nworkers, poolState,
                    outqueue, cache, stopSent, handles, items, completed,
                    queueVars >>

\* a worker finishes its task and posts (success, value) on the outqueue
WorkerFinish(w) ==
    /\ w \in Workers
    /\ worker[w].st = "busy"
    /\ \E resp \in Responses :
          outqueue' = Append(outqueue,
                             Result(worker[w].task, RunTask(worker[w].task, resp)))
    /\ completed' = Append(completed, worker[w].task.arg)
    /\ worker' = [worker EXCEPT ![w] = Idle]
    /\ UNCHANGED << pc, i, raised, child, joined, yielded, nworkers, poolState,
                    backlog, cache, stopSent, handles, items, started,
                    queueVars >>

\* variant: the result handler puts a new result in front of the unread ones
HandleResult_Front ==
    /\ outqueue # << >>
    /\ outqueue' = Tail(outqueue)
    /\ cache' = cache \ { Head(outqueue).task }
    /\ IF Head(outqueue).fn = "site_size"
          THEN /\ items' = << Head(outqueue) >> \o items
               /\ UNCHANGED handles
          ELSE /\ handles' = << Head(outqueue) >> \o handles
               /\ UNCHANGED items
    /\ UNCHANGED << pc, i, raised, child, joined, yielded, nworkers, poolState,
                    backlog, worker, stopSent, started, completed, queueVars >>

\* the result handler thread: sets the handle (apply_async) or appends to
\* the iterator's deque (imap_unordered), and drops the job from the cache
HandleResult ==
    /\ outqueue # << >>
    /\ outqueue' = Tail(outqueue)
    /\ cache' = cache \ { Head(outqueue).task }
    /\ IF Head(outqueue).fn = "site_size"
          THEN /\ items' = Append(items, Head(outqueue))
               /\ UNCHANGED handles
          ELSE /\ handles' = Append(handles, Head(outqueue))
               /\ UNCHANGED items
    /\ UNCHANGED << pc, i, raised, child, joined, yielded, nworkers, poolState,
                    backlog, worker, stopSent, started, completed, queueVars >>

\* the worker handler thread leaves its loop once the pool is closed and the
\* cache is empty; one None per worker is then sent down the task pipe
SendStop ==
    /\ poolState = "CLOSE"
    /\ cache = {}
    /\ ~stopSent
    /\ stopSent' = TRUE
    /\ backlog' = backlog \o [k \in 1..nworkers |-> StopTask]
    /\ UNCHANGED << pc, i, raised, child, joined, yielded, nworkers, poolState,
                    worker, outqueue, cache, handles, items, started,
                    completed, queueVars >>

AllExited == \A w \in Workers : worker[w].st = "exited"

\* variant: apply_async without the running check
ApplyAsync_NoCheck(t) == Enqueue(<< t >>) /\ raised' = ""

\* variant: apply_async that waits until some worker is idle
ApplyAsync_WaitIdle(t) ==
    /\ \E w \in Workers : worker[w].st = "idle"
    /\ IF poolState = "RUN"
          THEN Enqueue(<< t >>) /\ raised' = ""
          ELSE raised' = "PoolClosed" /\ UNCHANGED << backlog, cache >>

\* apply_async(func, args): refused unless the pool is running
ApplyAsync(t) ==
    IF poolState = "RUN"
       THEN Enqueue(<< t >>) /\ raised' = ""
       ELSE raised' = "PoolClosed" /\ UNCHANGED << backlog, cache >>

\* variant: join returns as soon as the pool is closed
JoinReady_NoWait == poolState = "CLOSE"

\* pool.join(): refused on a running pool; otherwise waits for the handler
\* threads and for every worker process to exit
JoinReady == poolState = "CLOSE" /\ stopSent /\ AllExited

\* ------------------------------------------------- main: apply_async part
\* pool = Pool(4)
PoolNew ==
    /\ pc = "pool_new"
    /\ NewPool(PoolWorkers)
    /\ i' = 0
    /\ pc' = "pool_submit"
    /\ UNCHANGED << raised, child, joined, yielded, queueVars >>

\* for i in range(5): pool.apply_async(func=long_time_task, args=(i,))
PoolSubmit ==
    /\ pc = "pool_submit"
    /\ ApplyAsync(Task("long_time_task", i))
    /\ i' = i + 1
    /\ pc' = IF poolState # "RUN" THEN "crashed"
             ELSE IF i + 1 = PoolTasks THEN "pool_close" ELSE "pool_submit"
    /\ UNCHANGED << child, joined, yielded, nworkers, poolState, worker,
                    outqueue, stopSent, handles, items, started, completed,
                    queueVars >>

\* pool.close()
PoolClose ==
    /\ pc = "pool_close"
    /\ ClosePool
    /\ pc' = "pool_join"
    /\ UNCHANGED << i, raised, child, joined, yielded, queueVars >>

\* pool.join(), then print('All subprocesses done')
PoolJoin ==
    /\ pc = "pool_join"
    /\ JoinReady
    /\ joined' = TRUE
    /\ pc' = "imap_new"
    /\ UNCHANGED << i, raised, child, yielded, poolVars, queueVars >>

\* ---------------------------------------------- main: imap_unordered part
\* pool = Pool(5)
ImapNew ==
    /\ pc = "imap_new"
    /\ NewPool(ImapWorkers)
    /\ pc' = "imap_call"
    /\ UNCHANGED << i, raised, child, joined, yielded, queueVars >>

\* pool.imap_unordered(site_size, sites): one task per site, in list order
ImapCall ==
    /\ pc = "imap_call"
    /\ Enqueue([k \in 1..NumSites |-> Task("site_size", k - 1)])
    /\ pc' = "imap_next"
    /\ UNCHANGED << i, raised, child, joined, yielded, nworkers, poolState,
                    worker, outqueue, stopSent, handles, items, started,
                    completed, queueVars >>

\* the iterator's next() with a result waiting: a success is returned to the
\* loop body (print(result)); a failure is raised in main, which ends main
ImapYield ==
    /\ pc = "imap_next"
    /\ items # << >>
    /\ items' = Tail(items)
    /\ IF Head(items).ok
          THEN /\ yielded' = Append(yielded, Head(items).val)
               /\ UNCHANGED << pc, raised >>
          ELSE /\ raised' = "TaskFailure"
               /\ pc' = "crashed"
               /\ UNCHANGED yielded
    /\ UNCHANGED << i, child, joined, nworkers, poolState, backlog, worker,
                    outqueue, cache, stopSent, handles, started, completed,
                    queueVars >>

\* the iterator's next() with nothing waiting and every result received:
\* StopIteration, the for loop ends
ImapStop ==
    /\ pc = "imap_next"
    /\ items = << >>
    /\ cache = {}
    /\ pc' = "nslookup"
    /\ UNCHANGED << i, raised, child, joined, yielded, poolVars, queueVars >>

\* subprocess.call / subprocess.Popen of nslookup: no state of interest
Nslookup ==
    /\ pc = "nslookup"
    /\ pc' = "q_start_w"
    /\ UNCHANGED << i, raised, child, joined, yielded, poolVars, queueVars >>

\* --------------------------------------------------- main: the Queue part
\* q = Queue(); p_w = Process(target=write, ...); p_w.start()
StartWriter ==
    /\ pc = "q_start_w"
    /\ wpc' = "put"
    /\ pc' = "q_start_r"
    /\ UNCHANGED << i, raised, child, joined, yielded, poolVars, qbuf, pipe,
                    widx, rpc, got, puts >>

\* p_r = Process(target=read, ...); p_r.start()
StartReader ==
    /\ pc = "q_start_r"
    /\ rpc' = "get"
    /\ pc' = "q_join_w"
    /\ UNCHANGED << i, raised, child, joined, yielded, poolVars, qbuf, pipe,
                    wpc, widx, got, puts >>

\* variant: main does not wait for the writer
JoinWriter_NoWait ==
    /\ pc = "q_join_w"
    /\ pc' = "q_terminate"
    /\ UNCHANGED << i, raised, child, joined, yielded, poolVars, queueVars >>

\* p_w.join()
JoinWriter ==
    /\ pc = "q_join_w"
    /\ wpc = "exited"
    /\ pc' = "q_terminate"
    /\ UNCHANGED << i, raised, child, joined, yielded, poolVars, queueVars >>

\* variant: terminate() that leaves the reader running
TerminateReader_NoKill ==
    /\ pc = "q_terminate"
    /\ pc' = "done"
    /\ UNCHANGED << i, raised, child, joined, yielded, poolVars, queueVars >>

\* p_r.terminate()
TerminateReader ==
    /\ pc = "q_terminate"
    /\ rpc' = "terminated"
    /\ pc' = "done"
    /\ UNCHANGED << i, raised, child, joined, yielded, poolVars, qbuf, pipe,
                    wpc, widx, got, puts >>

\* write(): q.put(c) appends to the queue's buffer and returns
WriterPut ==
    /\ wpc = "put"
    /\ qbuf' = Append(qbuf, Msgs[widx])
    /\ puts' = Append(puts, Msgs[widx])
    /\ wpc' = "sleep"
    /\ UNCHANGED << pc, i, raised, child, joined, yielded, poolVars, pipe,
                    widx, rpc, got >>

\* write(): time.sleep(random.random()), then the next c or the end
WriterSleep ==
    /\ wpc = "sleep"
    /\ IF widx = Len(Msgs)
          THEN wpc' = "exiting" /\ UNCHANGED widx
          ELSE wpc' = "put" /\ widx' = widx + 1
    /\ UNCHANGED << pc, i, raised, child, joined, yielded, poolVars, qbuf,
                    pipe, rpc, got, puts >>

\* the writer process exits once the queue's feeder thread has flushed
WriterExit ==
    /\ wpc = "exiting"
    /\ qbuf = << >>
    /\ wpc' = "exited"
    /\ UNCHANGED << pc, i, raised, child, joined, yielded, poolVars, qbuf,
                    pipe, widx, rpc, got, puts >>

\* the queue's feeder thread: buffer head to the pipe
Feeder ==
    /\ qbuf # << >>
    /\ pipe' = Append(pipe, Head(qbuf))
    /\ qbuf' = Tail(qbuf)
    /\ UNCHANGED << pc, i, raised, child, joined, yielded, poolVars, wpc,
                    widx, rpc, got, puts >>

\* variant: get returns the newest item of the pipe
ReaderGet_Newest ==
    /\ rpc = "get"
    /\ pipe # << >>
    /\ got' = Append(got, pipe[Len(pipe)])
    /\ pipe' = SubSeq(pipe, 1, Len(pipe) - 1)
    /\ UNCHANGED << pc, i, raised, child, joined, yielded, poolVars, qbuf,
                    wpc, widx, rpc, puts >>

\* variant: the reader leaves its loop after the last message
ReaderGet_StopAtEnd ==
    /\ rpc = "get"
    /\ pipe # << >>
    /\ got' = Append(got, Head(pipe))
    /\ pipe' = Tail(pipe)
    /\ rpc' = IF Head(pipe) = Msgs[Len(Msgs)] THEN "exited" ELSE "get"
    /\ UNCHANGED << pc, i, raised, child, joined, yielded, poolVars, qbuf,
                    wpc, widx, puts >>

\* read(): val = q.get(block=True); print(val); loop
ReaderGet ==
    /\ rpc = "get"
    /\ pipe # << >>
    /\ got' = Append(got, Head(pipe))
    /\ pipe' = Tail(pipe)
    /\ UNCHANGED << pc, i, raised, child, joined, yielded, poolVars, qbuf,
                    wpc, widx, rpc, puts >>

\* -------------------------------------------------------------- the script
Next ==
    \/ ProcStart
    \/ run_process
    \/ ProcJoin
    \/ PoolNew
    \/ PoolSubmit
    \/ PoolClose
    \/ PoolJoin
    \/ \E w \in Workers : WorkerTake(w)
    \/ \E w \in Workers : WorkerFinish(w)
    \/ HandleResult
    \/ SendStop
    \/ ImapNew
    \/ ImapCall
    \/ ImapYield
    \/ ImapStop
    \/ Nslookup
    \/ StartWriter
    \/ StartReader
    \/ JoinWriter
    \/ TerminateReader
    \/ WriterPut
    \/ WriterSleep
    \/ WriterExit
    \/ Feeder
    \/ ReaderGet

Spec == Init /\ [][Next]_vars

\* ------------------------------------------------ a free-running pool client
\* The pool's interface driven by a caller that may call submit, close and
\* join in any order (the script only ever calls them in the one order of
\* main); i counts the caller's submit calls.
InitPool ==
    /\ pc = "client"
    /\ i = 0
    /\ raised = ""
    /\ child = "new"
    /\ nworkers = ClientWorkers
    /\ poolState = "RUN"
    /\ backlog = << >>
    /\ worker = [w \in 1..ClientWorkers |-> Idle]
    /\ outqueue = << >>
    /\ cache = {}
    /\ stopSent = FALSE
    /\ handles = << >>
    /\ items = << >>
    /\ yielded = << >>
    /\ started = << >>
    /\ completed = << >>
    /\ joined = FALSE
    /\ qbuf = << >>
    /\ pipe = << >>
    /\ wpc = "new"
    /\ widx = 1
    /\ rpc = "new"
    /\ got = << >>
    /\ puts = << >>

\* submit(task)
ClientSubmit ==
    /\ pc = "client"
    /\ i < MaxClientTasks
    /\ ApplyAsync(Task("long_time_task", i))
    /\ i' = i + 1
    /\ UNCHANGED << pc, child, joined, yielded, nworkers, poolState, worker,
                    outqueue, stopSent, handles, items, started, completed,
                    queueVars >>

\* close()
ClientClose ==
    /\ pc = "client"
    /\ ClosePool
    /\ raised' = ""
    /\ UNCHANGED << pc, i, child, joined, yielded, queueVars >>

\* variant: join() on an open pool reports the error and yet counts as done
ClientJoinOpen_Returns ==
    /\ pc = "client"
    /\ poolState = "RUN"
    /\ raised' = "PoolNotClosed"
    /\ joined' = TRUE
    /\ UNCHANGED << pc, i, child, yielded, poolVars, queueVars >>

\* join() on a pool that was not closed: refused
ClientJoinOpen ==
    /\ pc = "client"
    /\ poolState = "RUN"
    /\ raised' = "PoolNotClosed"
    /\ UNCHANGED << pc, i, child, joined, yielded, poolVars, queueVars >>

\* join() on a closed pool: returns once every worker has exited
ClientJoin ==
    /\ pc = "client"
    /\ ~joined
    /\ JoinReady
    /\ joined' = TRUE
    /\ raised' = ""
    /\ UNCHANGED << pc, i, child, yielded, poolVars, queueVars >>

NextPool ==
    \/ ClientSubmit
    \/ ClientClose
    \/ ClientJoinOpen
    \/ ClientJoin
    \/ \E w \in Workers : WorkerTake(w)
    \/ \E w \in Workers : WorkerFinish(w)
    \/ HandleResult
    \/ SendStop

PoolSpec == InitPool /\ [][NextPool]_vars

\* ================================================================= claims
TaskIds(s) == [k \in 1..Len(s) |-> s[k].task]

Urls(s) == [k \in 1..Len(s) |-> s[k][1]]

\* main is in the part of the script that uses the Pool(4) of apply_async
InPool1 == pc \in {"pool_submit", "pool_close", "pool_join", "imap_new"}

\* the imap_unordered loop is over: it ended or it raised
LoopOver == pc \in {"crashed", "nslookup", "q_start_w", "q_start_r",
                    "q_join_w", "q_terminate", "done"}

\* C1: when pool.join() has returned, exactly PoolTasks results have been
\* produced and set, one for each of the submitted tasks 0..PoolTasks-1,
\* none missing and none twice.
C1_JoinAfterAllResults ==
    (pc = "imap_new") =>
        /\ joined
        /\ Len(handles) = PoolTasks
        /\ Range(TaskIds(handles)) = 0..(PoolTasks - 1)
        /\ NoDup(TaskIds(handles))
        /\ Len(completed) = PoolTasks
        /\ outqueue = << >>

\* join has returned after the run the script documents: 2, 4, 3, 1, 0
C1_Witness ==
    /\ pc = "imap_new"
    /\ joined
    /\ TaskIds(handles) = << 2, 4, 3, 1, 0 >>

\* C2: when main has ended, the reader has retrieved 'A', 'B', 'C' in that
\* order and was terminated without an error.
C2_AllRetrieved ==
    (pc = "done") => (got = Msgs /\ rpc = "terminated" /\ raised = "")

\* C3: the values returned by q.get are a prefix of the values passed to
\* q.put, and together with what is still in the queue they are exactly the
\* values put, in order: nothing lost, duplicated or reordered.
C3_Fifo ==
    /\ IsPrefix(got, puts)
    /\ got \o pipe \o qbuf = puts

\* the reader has retrieved the first two values while the third is in the
\* queue
C3_Witness ==
    /\ got = << "A", "B" >>
    /\ pipe = << "C" >>
    /\ rpc = "get"

\* C4: once the imap_unordered loop is over it has yielded exactly one result
\* per site, each carrying its site's URL.
C4_OneResultPerTask ==
    LoopOver =>
        /\ Len(yielded) = NumSites
        /\ Range(Urls(yielded)) = { sites[k] : k \in 1..NumSites }

\* C5: the results the loop receives are in the order the tasks completed:
\* the k-th value yielded is the result of the k-th task to complete.
C5_CompletionOrder ==
    /\ Len(yielded) <= Len(completed)
    /\ \A k \in 1..Len(yielded) : yielded[k][1] = sites[completed[k] + 1]

\* every site was yielded, the second site before the first
C5_Witness ==
    /\ Len(yielded) = NumSites
    /\ yielded[1][1] = sites[2]
    /\ yielded[2][1] = sites[1]

\* C6: a submit call (i counts them) made while the pool is closed reports
\* PoolClosed and leaves backlog, workers, pending jobs and results as they
\* were.
C6_SubmitAfterCloseFails ==
    [][ (poolState = "CLOSE" /\ i' = i + 1) =>
            /\ raised' = "PoolClosed"
            /\ UNCHANGED << backlog, cache, worker, outqueue, handles, items,
                            started, completed, poolState >> ]_vars

\* a submit was refused while an earlier task was still pending
C6_Witness ==
    /\ pc = "client"
    /\ poolState = "CLOSE"
    /\ raised = "PoolClosed"
    /\ i = 2
    /\ cache = {0}

\* C7: never more tasks executing than workers; in the Pool(4) part task 4
\* has started only if one of tasks 0..3 has completed, and join has
\* returned only if all PoolTasks tasks have completed.
C7_AtMostNExecuting ==
    /\ Len(started) - Len(completed) <= nworkers
    /\ (InPool1 /\ (PoolTasks - 1) \in Range(started)) =>
           (\E t \in 0..(PoolTasks - 2) : t \in Range(completed))
    /\ (pc = "imap_new") => Len(completed) = PoolTasks

\* task 4 is running next to three of the first four tasks
C7_Witness ==
    /\ InPool1
    /\ (PoolTasks - 1) \in Range(started)
    /\ Len(completed) = 1
    /\ \A w \in Workers : worker[w].st = "busy"

\* C8: no task is started twice, no task posts two results, no two workers
\* run the same task, and a task that has posted its result is not running.
C8_ExactlyOnce ==
    /\ NoDup(started)
    /\ NoDup(completed)
    /\ Range(completed) \subseteq Range(started)
    /\ \A w1, w2 \in Workers :
          (worker[w1].st = "busy" /\ worker[w2].st = "busy" /\ w1 # w2)
              => worker[w1].task.arg # worker[w2].task.arg
    /\ \A w \in Workers :
          worker[w].st = "busy" => worker[w].task.arg \notin Range(completed)
    /\ NoDup(TaskIds(outqueue) \o TaskIds(handles))

\* all five tasks of the Pool(4) have run and main waits in join
C8_Witness ==
    /\ pc = "pool_join"
    /\ Len(completed) = PoolTasks
    /\ Len(handles) = PoolTasks

\* C9: a failure of the callable is never raised in the caller: main does
\* not end with the task's exception.
C9_FailureNotPropagated == raised # "TaskFailure"

\* C10: terminate() ends the reader, and a terminated reader performs no
\* further get.
C10_CancelEndsConsumer ==
    [][ /\ (pc = "q_terminate" /\ pc' = "done") => rpc' = "terminated"
        /\ (rpc = "terminated") =>
               (rpc' = "terminated" /\ got' = got /\ pipe' = pipe) ]_vars

\* the reader was terminated while it waited on the empty queue, after it
\* had retrieved every value
C10_Witness ==
    /\ rpc = "terminated"
    /\ pc = "done"
    /\ pipe = << >>
    /\ qbuf = << >>
    /\ got = Msgs

\* =============================================== a free-running bounded channel
\* The channel interface of a queue built with a capacity, driven by one
\* producer and one consumer (the script builds its Queue without a capacity,
\* never closes it and puts only three items).  pipe holds the occupied
\* slots; wpc is the producer: "ready", "putting" (inside put), "closed";
\* rpc is the consumer: "get" (in its retrieval loop), "eof", "terminated";
\* widx is the next item; raised is the error of the producer's latest call.

\* number of slots of the channel
Capacity == 2
\* items the producer may put
MaxPuts == 5

ChanInit ==
    /\ pc = "chan"
    /\ i = 0
    /\ raised = ""
    /\ child = "new"
    /\ nworkers = 0
    /\ poolState = "NONE"
    /\ backlog = << >>
    /\ worker = << >>
    /\ outqueue = << >>
    /\ cache = {}
    /\ stopSent = FALSE
    /\ handles = << >>
    /\ items = << >>
    /\ yielded = << >>
    /\ started = << >>
    /\ completed = << >>
    /\ joined = FALSE
    /\ qbuf = << >>
    /\ pipe = << >>
    /\ wpc = "ready"
    /\ widx = 1
    /\ rpc = "get"
    /\ got = << >>
    /\ puts = << >>

\* the producer calls put(item)
ChanPutCall ==
    /\ pc = "chan"
    /\ wpc = "ready"
    /\ widx <= MaxPuts
    /\ wpc' = "putting"
    /\ raised' = ""
    /\ UNCHANGED << pc, i, child, joined, yielded, poolVars, qbuf, pipe, widx,
                    rpc, got, puts >>

\* variant: put completes although every slot is occupied
ChanPutDone_NoFullCheck ==
    /\ pc = "chan"
    /\ wpc = "putting"
    /\ pipe' = Append(pipe, widx)
    /\ puts' = Append(puts, widx)
    /\ widx' = widx + 1
    /\ wpc' = "ready"
    /\ UNCHANGED << pc, i, raised, child, joined, yielded, poolVars, qbuf,
                    rpc, got >>

\* put returns: it waited for a free slot and stored the item at the tail
ChanPutDone ==
    /\ pc = "chan"
    /\ wpc = "putting"
    /\ Len(pipe) < Capacity
    /\ pipe' = Append(pipe, widx)
    /\ puts' = Append(puts, widx)
    /\ widx' = widx + 1
    /\ wpc' = "ready"
    /\ UNCHANGED << pc, i, raised, child, joined, yielded, poolVars, qbuf,
                    rpc, got >>

\* the producer calls close(): no more puts; buffered items stay
ChanClose ==
    /\ pc = "chan"
    /\ wpc = "ready"
    /\ wpc' = "closed"
    /\ raised' = ""
    /\ UNCHANGED << pc, i, child, joined, yielded, poolVars, qbuf, pipe, widx,
                    rpc, got, puts >>

\* put after close(): refused
ChanPutClosed ==
    /\ pc = "chan"
    /\ wpc = "closed"
    /\ raised' = "ChannelClosed"
    /\ UNCHANGED << pc, i, child, joined, yielded, poolVars, queueVars >>

\* get() with an item buffered: removes and returns the head
ChanGet ==
    /\ pc = "chan"
    /\ rpc = "get"
    /\ pipe # << >>
    /\ got' = Append(got, Head(pipe))
    /\ pipe' = Tail(pipe)
    /\ UNCHANGED << pc, i, raised, child, joined, yielded, poolVars, qbuf,
                    wpc, widx, rpc, puts >>

\* variant: get reports end-of-stream as soon as the channel is closed
ChanGetEof_Early ==
    /\ pc = "chan"
    /\ rpc = "get"
    /\ wpc = "closed"
    /\ rpc' = "eof"
    /\ UNCHANGED << pc, i, raised, child, joined, yielded, poolVars, qbuf,
                    pipe, wpc, widx, got, puts >>

\* get() on the closed and drained channel: end-of-stream
ChanGetEof ==
    /\ pc = "chan"
    /\ rpc = "get"
    /\ pipe = << >>
    /\ wpc = "closed"
    /\ rpc' = "eof"
    /\ UNCHANGED << pc, i, raised, child, joined, yielded, poolVars, qbuf,
                    pipe, wpc, widx, got, puts >>

\* cancel(consumer): the consumer is terminated wherever it is in its loop
ChanCancel ==
    /\ pc = "chan"
    /\ rpc = "get"
    /\ rpc' = "terminated"
    /\ UNCHANGED << pc, i, raised, child, joined, yielded, poolVars, qbuf,
                    pipe, wpc, widx, got, puts >>

NextChan ==
    \/ ChanPutCall
    \/ ChanPutDone
    \/ ChanClose
    \/ ChanPutClosed
    \/ ChanGet
    \/ ChanGetEof
    \/ ChanCancel

ChanSpec == ChanInit /\ [][NextChan]_vars

\* the consumer is a running process: a get that can return does return
ChanFairSpec == ChanSpec /\ WF_vars(ChanGet) /\ WF_vars(ChanGetEof)

\* C11: while a put is pending on a full channel it stays pending: it does
\* not store its item, fail or lose it; a put stores its item only in a state
\* with a free slot.
C11_PutBlocksWhenFull ==
    [][ /\ (wpc = "putting" /\ Len(pipe) = Capacity) =>
               (wpc' = "putting" /\ puts' = puts /\ widx' = widx
                /\ raised' = raised /\ Len(pipe') <= Capacity)
        /\ (puts' # puts) => Len(pipe) < Capacity ]_vars

\* Capacity puts were made with no get, and one more put is pending
C11_Witness ==
    /\ pc = "chan"
    /\ wpc = "putting"
    /\ Len(puts) = Capacity
    /\ Len(pipe) = Capacity
    /\ got = << >>

\* C12: the number of occupied slots is never negative and never above the
\* capacity.
C12_Occupancy == (pc = "chan") => (Len(pipe) >= 0 /\ Len(pipe) <= Capacity)

\* every slot is occupied while the producer and the consumer both run
C12_Witness ==
    /\ pc = "chan"
    /\ Len(pipe) = Capacity
    /\ wpc = "putting"
    /\ rpc = "get"
    /\ got # << >>

\* C13: nothing put is lost or reordered by close; end-of-stream is reported
\* only on the closed, drained channel with every item delivered; and once
\* the channel is closed the consumer's loop eventually stops.
C13_DrainThenEof ==
    /\ [](got \o pipe = puts)
    /\ []((rpc = "eof") => (wpc = "closed" /\ pipe = << >> /\ got = puts))
    /\ ((wpc = "closed") ~> (rpc \in {"eof", "terminated"}))

\* the channel was closed with every slot occupied and nothing retrieved yet
C13_Witness ==
    /\ pc = "chan"
    /\ wpc = "closed"
    /\ rpc = "get"
    /\ Len(pipe) = Capacity
    /\ got = << >>

\* C14: join never returns on a pool that was not closed; a step in which
\* PoolNotClosed is reported starts on an open pool and changes nothing; and a
\* submit made right after it is accepted.
C14_JoinOpenFails ==
    /\ []((pc = "client" /\ joined) => poolState = "CLOSE")
    /\ [][ /\ (raised # "PoolNotClosed" /\ raised' = "PoolNotClosed") =>
                  (poolState = "RUN" /\ UNCHANGED << poolVars, joined >>)
           /\ (raised = "PoolNotClosed" /\ i' = i + 1) =>
                  (raised' = "" /\ backlog' = Append(backlog, Task("long_time_task", i))
                   /\ poolState' = "RUN") ]_vars

\* join was refused on the open pool while a submitted task was pending
C14_Witness ==
    /\ pc = "client"
    /\ raised = "PoolNotClosed"
    /\ poolState = "RUN"
    /\ ~joined
    /\ cache # {}

\* task ids that are backlogged, running on a worker or posted and unhandled
InProgress ==
    { backlog[k].arg : k \in { n \in 1..Len(backlog) : backlog[n].kind = "task" } }
    \cup { worker[w].task.arg : w \in { v \in Workers : worker[v].st = "busy" } }
    \cup { outqueue[k].task : k \in 1..Len(outqueue) }

\* C15: a close() on an already closed pool changes nothing and reports no
\* error; a closed pool stays closed; and close never drops work: every task
\* still awaiting its result is backlogged, running or posted.
C15_CloseIdempotent ==
    /\ [](cache \subseteq InProgress)
    /\ [][ /\ (ClientClose /\ poolState = "CLOSE") =>
                  (UNCHANGED << poolVars, joined >> /\ raised' = "")
           /\ (poolState = "CLOSE") => (poolState' = "CLOSE") ]_vars

\* the pool is closed while one task is backlogged and every worker runs one
C15_Witness ==
    /\ pc = "client"
    /\ poolState = "CLOSE"
    /\ backlog # << >>
    /\ \A w \in Workers : worker[w].st = "busy"
    /\ cache = {0, 1, 2}

\* C16: tasks are started in submission order (the k-th task started is the
\* k-th submitted), and a step that starts a task starts the head of the
\* backlog and removes it.
C16_FifoStart ==
    /\ [](\A k \in 1..Len(started) : started[k] = k - 1)
    /\ [][ (Len(started') > Len(started)) =>
               /\ backlog # << >>
               /\ Head(backlog).kind = "task"
               /\ started' = Append(started, Head(backlog).arg)
               /\ backlog' = Tail(backlog) ]_vars

\* task 4 was started after task 3 had completed, tasks 0..2 still running
C16_Witness ==
    /\ InPool1
    /\ started = << 0, 1, 2, 3, 4 >>
    /\ completed = << 3 >>

\* C17: whenever main is about to call apply_async the call can complete at
\* once, whatever the workers are doing and however many tasks are
\* backlogged.
C17_SubmitNeverBlocks == (pc = "pool_submit") => ENABLED PoolSubmit

\* all five submits and close() are done, every worker is busy, task 4 is
\* backlogged and no task has completed
C17_Witness ==
    /\ pc = "pool_join"
    /\ poolState = "CLOSE"
    /\ completed = << >>
    /\ \A w \in Workers : worker[w].st = "busy"
    /\ Len(backlog) = 1
    /\ Head(backlog).arg = PoolTasks - 1

\* every process of the script is scheduled by the operating system: as long
\* as some step of the script is possible, a step is taken
FairSpec == Spec /\ WF_vars(Next)

\* C18: once the queue part has begun main reaches its end; it does so with
\* the writer exited after its three puts and the reader terminated; what
\* the reader had not retrieved by then is still in the queue and is never
\* delivered.
C18_AbruptCancel ==
    /\ []((pc = "done") =>
             (rpc = "terminated" /\ wpc = "exited" /\ puts = Msgs
              /\ qbuf = << >> /\ got \o pipe = puts))
    /\ [][ (pc = "done") => (got' = got /\ pipe' = pipe) ]_vars
    /\ ((pc = "q_start_w") ~> (pc = "done"))

\* main has ended and 'C' was never retrieved
C18_Witness ==
    /\ pc = "done"
    /\ rpc = "terminated"
    /\ got = << "A", "B" >>
    /\ pipe = << "C" >>

\* C19: the reader never leaves its loop by itself: it is never in an exited
\* state, the only step that takes it out of the loop is main's terminate,
\* after the last item it can take no step at all, and main ends only with
\* the reader terminated.
C19_ReaderNeverEnds ==
    /\ [](rpc \in {"new", "get", "terminated"})
    /\ []((rpc = "get" /\ got = Msgs) => ~ENABLED ReaderGet)
    /\ []((pc = "done") => rpc = "terminated")
    /\ [][ (rpc = "get" /\ rpc' # "get") =>
               (pc = "q_terminate" /\ pc' = "done" /\ rpc' = "terminated") ]_vars

\* the writer has exited and been joined, the reader has consumed every item
\* and waits in get
C19_Witness ==
    /\ pc = "q_terminate"
    /\ wpc = "exited"
    /\ rpc = "get"
    /\ got = Msgs
    /\ pipe = << >>

\* C20: the child has not run before main started it, and main is past
\* p.join() (in the pool part or later) only when run_process has finished.
C20_ChildJoined ==
    /\ (pc = "proc_start") => (child = "new")
    /\ (pc \notin {"proc_start", "proc_join"}) => (child = "done")

\* main is past p.join(), about to build the pool, and the child has finished
C20_Witness ==
    /\ pc = "pool_new"
    /\ child = "done"
    /\ poolState = "NONE"

====
